---- MODULE Spec2Model ----
(***************************************************************************)
(* Crawl controller of BankingDiveWS.py: scrape_banking_dive and the       *)
(* helpers it calls (contains_fraud_keywords, scrape_full_article).        *)
(*                                                                         *)
(* A call of scrape_banking_dive is a record of its parameters, its locals *)
(* and its position (pc).  The variable run maps each call under study to  *)
(* that record.  Spec studies one call; SpecPair studies two calls with    *)
(* the same target, one with fraud_only and one without, that read the     *)
(* same source: every listing page and every article document the source   *)
(* serves is served identically to each call that asks for it.             *)
(*                                                                         *)
(* The source is the environment.  What it serves is drawn when the code   *)
(* reads it: the status and the <li> entries of a listing page at the GET  *)
(* of line 114, the markup of one entry when the for loop of line 134      *)
(* reaches it, the article document at the GET of line 60.                 *)
(*                                                                         *)
(* fraud_analysis.py reads the file the scraper wrote.  The variable df is *)
(* a row of the frame of analyze_articles with the columns computed so     *)
(* far; SpecAnalysis studies analyze_articles on the rows the scraper can  *)
(* write.                                                                  *)
(***************************************************************************)
EXTENDS Naturals, Sequences, FiniteSets

VARIABLES run, df

vars == <<run, df>>

(***************************************************************************)
(* Bounds of the model.                                                    *)
(***************************************************************************)
MaxTarget == 2
MaxItems == 2

(***************************************************************************)
(* Strings the code inspects character by character are sequences of       *)
(* one-character strings.                                                  *)
(***************************************************************************)
Lower(c) ==
    CASE c = "B" -> "b" [] c = "F" -> "f" [] c = "S" -> "s"
      [] c = "L" -> "l" [] c = "R" -> "r" [] OTHER -> c

ToLower(text) == [i \in 1..Len(text) |-> Lower(text[i])]

\* Python's `sub in text` on strings
IsSubstring(sub, text) ==
    \E i \in 0..(Len(text) - Len(sub)) :
        \A j \in 1..Len(sub) : text[i + j] = sub[j]

\* Python's text.startswith(prefix)
StartsWith(text, prefix) ==
    /\ Len(text) >= Len(prefix)
    /\ \A j \in 1..Len(prefix) : text[j] = prefix[j]

FRAUD_KEYWORDS ==
    <<
        <<"f","r","a","u","d">>,
        <<"s","c","a","m">>,
        <<"f","r","a","u","d","u","l","e","n","t">>,
        <<"c","y","b","e","r","c","r","i","m","e">>,
        <<"c","y","b","e","r"," ","a","t","t","a","c","k">>,
        <<"d","a","t","a"," ","b","r","e","a","c","h">>,
        <<"i","d","e","n","t","i","t","y"," ","t","h","e","f","t">>,
        <<"p","h","i","s","h","i","n","g">>,
        <<"m","o","n","e","y"," ","l","a","u","n","d","e","r","i","n","g">>,
        <<"a","m","l">>,
        <<"k","y","c">>,
        <<"w","i","r","e"," ","f","r","a","u","d">>,
        <<"c","h","e","c","k"," ","f","r","a","u","d">>,
        <<"c","r","e","d","i","t"," ","c","a","r","d"," ","f","r","a","u","d">>,
        <<"a","c","c","o","u","n","t"," ","t","a","k","e","o","v","e","r">>,
        <<"s","y","n","t","h","e","t","i","c"," ","i","d","e","n","t","i","t","y">>,
        <<"d","e","e","p","f","a","k","e">>,
        <<"r","a","n","s","o","m","w","a","r","e">>,
        <<"h","a","c","k">>,
        <<"b","r","e","a","c","h">>,
        <<"s","e","c","u","r","i","t","y"," ","b","r","e","a","c","h">>,
        <<"f","i","n","a","n","c","i","a","l"," ","c","r","i","m","e">>,
        <<"e","m","b","e","z","z","l","e","m","e","n","t">>,
        <<"b","s","a">>,
        <<"b","a","n","k"," ","s","e","c","r","e","c","y"," ","a","c","t">>,
        <<"s","u","s","p","i","c","i","o","u","s"," ","a","c","t","i","v","i","t","y">>,
        <<"s","a","r">>,
        <<"f","i","n","c","e","n">>,
        <<"r","i","s","k"," ","m","a","n","a","g","e","m","e","n","t">>,
        <<"c","o","m","p","l","i","a","n","c","e">>,
        <<"r","e","g","u","l","a","t","i","o","n">>,
        <<"s","a","n","c","t","i","o","n","s">>
    >>

\* contains_fraud_keywords: the keywords of the list found in the lower-cased
\* text, in list order, and whether there is one.
RECURSIVE MatchedFrom(_, _)
MatchedFrom(text_lower, k) ==
    IF k > Len(FRAUD_KEYWORDS) THEN <<>>
    ELSE (IF IsSubstring(ToLower(FRAUD_KEYWORDS[k]), text_lower)
          THEN <<FRAUD_KEYWORDS[k]>> ELSE <<>>)
         \o MatchedFrom(text_lower, k + 1)

contains_fraud_keywords(text) ==
    IF text = <<>>
    THEN [found |-> FALSE, matched_keywords |-> <<>>]
    ELSE LET matched == MatchedFrom(ToLower(text), 1)
         IN [found |-> Len(matched) > 0, matched_keywords |-> matched]

(***************************************************************************)
(* The source: what the site can serve.                                    *)
(***************************************************************************)
\* A listing response: a transport failure, a non-2xx status, or a page whose
\* <li class="row feed__item"> entries are given by their advertisement flag
\* ('feed-item-ad' among the entry's classes), in page order.
RECURSIVE FlagSeqs(_)
FlagSeqs(n) ==
    IF n = 0 THEN {<<>>}
    ELSE FlagSeqs(n - 1) \cup
         {Append(s, b) : s \in {q \in FlagSeqs(n - 1) : Len(q) = n - 1}, b \in BOOLEAN}

ListingPages ==
    {[outcome |-> o, entries |-> <<>>] : o \in {"ConnectionError", "status_404"}}
    \cup {[outcome |-> "ok", entries |-> s] : s \in FlagSeqs(MaxItems)}

\* The title and the summary an entry can show.
Texts ==
    { [title |-> <<"B","a","n","k"," ","r","e","p","o","r","t","s"," ","w","i","r","e"," ","f","r","a","u","d">>,
       summary |-> <<"R","e","g","u","l","a","t","o","r","s"," ","f","l","a","g"," ","d","a","t","a"," ","b","r","e","a","c","h">>],
      [title |-> <<"F","e","d"," ","h","o","l","d","s"," ","r","a","t","e","s"," ","s","t","e","a","d","y">>,
       summary |-> <<>>] }

Hrefs ==
    { <<>>,
      <<"/","n","e","w","s","/","a">>,
      <<"h","t","t","p","s",":","/","/","w","w","w",".","b","a","n","k","i","n","g","d","i","v","e",".","c","o","m","/","n","e","w","s","/","a">>,
      <<"/","n","e","w","s","/","b">> }

\* One non-advertisement entry.  markup says where the entry's links are: in the
\* <h3 class="feed__title"> ("h3_link"), only elsewhere in the entry
\* ("link_only"), or nowhere ("no_link").  title and href are the text and the
\* target of the entry's first link.
Items ==
    {[markup |-> "no_link", title |-> <<>>, summary |-> <<>>, href |-> <<>>]}
    \cup {[markup |-> "link_only",
           title |-> <<"F","e","d"," ","h","o","l","d","s"," ","r","a","t","e","s"," ","s","t","e","a","d","y">>,
           summary |-> <<>>,
           href |-> <<"/","n","e","w","s","/","b">>]}
    \cup {[markup |-> "h3_link", title |-> t.title, summary |-> t.summary, href |-> h] :
            t \in Texts, h \in Hrefs}

\* line 174
CombinedText(title, summary) == title \o <<" ">> \o summary

\* The verdict of contains_fraud_keywords on each text the source can serve,
\* computed once.
FraudCheck ==
    [text \in {CombinedText(t.title, t.summary) : t \in Texts} |->
        contains_fraud_keywords(text)]

\* An article response: a failure of the GET or of the parse, or a document
\* with or without each of the two body containers.
Paragraphs == <<"First paragraph.", "Second paragraph.">>

BodyOptions ==
    {[found |-> FALSE, paragraphs |-> <<>>], [found |-> TRUE, paragraphs |-> Paragraphs]}

ArticleDocs ==
    {[status |-> "error", article_body |-> b, content_body |-> b] :
        b \in {[found |-> FALSE, paragraphs |-> <<>>]}}
    \cup {[status |-> "ok", article_body |-> a, content_body |-> c] :
            a \in BodyOptions, c \in BodyOptions}

(***************************************************************************)
(* scrape_full_article                                                     *)
(***************************************************************************)
RECURSIVE JoinWithSpace(_)
JoinWithSpace(ps) ==
    IF ps = <<>> THEN ""
    ELSE IF Len(ps) = 1 THEN ps[1]
    ELSE ps[1] \o " " \o JoinWithSpace(Tail(ps))

\* scrape_full_article without its try/except: a failure leaves the function.
scrape_full_article_unguarded(doc) ==
    IF doc.status = "error"
    THEN [value |-> "", raises |-> TRUE]
    ELSE LET article_body == IF doc.article_body.found THEN doc.article_body
                             ELSE doc.content_body
         IN IF article_body.found
            THEN [value |-> JoinWithSpace(article_body.paragraphs), raises |-> FALSE]
            ELSE [value |-> "", raises |-> FALSE]

\* value: the string returned; raises: whether an exception leaves the function.
scrape_full_article(doc) ==
    IF doc.status = "error"
    THEN [value |-> "", raises |-> FALSE]
    ELSE LET article_body == IF doc.article_body.found THEN doc.article_body
                             ELSE doc.content_body
         IN IF article_body.found
            THEN [value |-> JoinWithSpace(article_body.paragraphs), raises |-> FALSE]
            ELSE [value |-> "", raises |-> FALSE]

(***************************************************************************)
(* scrape_banking_dive                                                     *)
(***************************************************************************)
PageLimit == 200

base_origin == <<"h","t","t","p","s",":","/","/","w","w","w",".","b","a","n","k","i","n","g","d","i","v","e",".","c","o","m">>

http == <<"h","t","t","p">>

\* the link target taken as it is
AbsoluteUrl_raw(article_url) == article_url

\* lines 157-159
AbsoluteUrl(article_url) ==
    IF article_url # <<>> /\ ~StartsWith(article_url, http)
    THEN base_origin \o article_url
    ELSE article_url

\* the first link of the entry taken when the heading has none
HasTitleLink_fallback(item) == item.markup \in {"h3_link", "link_only"}

\* lines 136-140 and 152: the title link is the <a> of the entry's
\* <h3 class="feed__title">, and nothing else.
HasTitleLink(item) == item.markup = "h3_link"

\* the duplicate check left out
IsDuplicate_never(article_url, seen_urls) == FALSE

\* line 162
IsDuplicate(article_url, seen_urls) == article_url \in seen_urls

\* the URL not recorded
MarkSeen_forgotten(seen_urls, article_url) == seen_urls

\* line 164
MarkSeen(seen_urls, article_url) == seen_urls \cup {article_url}

\* the fraud-only filter left out
SkipArticle_never(fraud_only, is_fraud_related) == FALSE

\* the filter comparing the flag with the verdict
SkipArticle_inverted(fraud_only, is_fraud_related) == fraud_only # ~is_fraud_related

\* line 178
SkipArticle(fraud_only, is_fraud_related) == fraud_only /\ ~is_fraud_related

\* the full article requested for every entry with a URL
WantsFullArticle_any(is_fraud_related, article_url) == article_url # <<>>

\* line 183
WantsFullArticle(is_fraud_related, article_url) ==
    is_fraud_related /\ article_url # <<>>

\* the record put in front
AppendRecord_front(articles_data, record) == <<record>> \o articles_data

\* line 188
AppendRecord(articles_data, record) == Append(articles_data, record)

\* > for >=
TargetReached_strict(articles_data, num_articles) == Len(articles_data) > num_articles

\* Whether a call fetches full articles.  scrape_banking_dive takes
\* num_articles and fraud_only only (line 82), and nothing but line 183 stands
\* before the request of line 186: every call does.
FullTextEnabled(st) == TRUE

\* line 199
TargetReached(articles_data, num_articles) == Len(articles_data) >= num_articles

\* while True
LoopCondition_always(articles_data, num_articles) == TRUE

\* <= for <
LoopCondition_inclusive(articles_data, num_articles) == Len(articles_data) <= num_articles

\* line 106
LoopCondition(articles_data, num_articles) == Len(articles_data) < num_articles

\* >= for >
PageLimitReached_early(page_num) == page_num >= PageLimit

\* the limit tested one page late
PageLimitReached_late(page_num) == page_num > PageLimit + 1

\* line 206
PageLimitReached(page_num) == page_num > PageLimit

\* the empty-page test left out
NoArticles_never(articles) == FALSE

\* line 129, on the number of entries left by the advertisement filter
NoArticles(articles) == Len(articles) = 0

\* line 126
IsArticle(is_ad) == ~is_ad

\* The classes an exception is an instance of, and the except clauses of
\* lines 209-214.
ExceptionBases(exc) ==
    CASE exc = "HTTPError" -> {"HTTPError", "RequestException", "Exception"}
      [] exc = "ConnectionError" -> {"ConnectionError", "RequestException", "Exception"}
      [] OTHER -> {"Exception"}

\* only the first except clause
ExceptClauses_http_only == {"HTTPError"}

ExceptClauses == {"HTTPError", "RequestException", "Exception"}

Caught(exc) == ExceptionBases(exc) \cap ExceptClauses # {}

\* the delay left out
Sleep_skipped(st) == st

\* time.sleep(1), lines 59 and 111
Sleep(st) == [st EXCEPT !.delayed = TRUE]

\* requests.get, lines 60 and 114
Get(st) ==
    [st EXCEPT !.undelayed = @ \/ ~st.delayed, !.delayed = FALSE]

\* The state a call starts in (lines 91-104, and the first test of line 106,
\* which a positive target passes).  Beside the code's variables the record
\* keeps what an observer of the call sees:
\*   last        what the source served at the latest step, whatever the call
\*               did with it: "page_failed",
\*               "page_empty" (no entry that is not an advertisement),
\*               "page_listed"; for an entry "link_only" or "no_link" (no title
\*               link), "repeat" (a title link whose absolute URL an earlier
\*               entry of the call had), "plain" (any other title link whose
\*               title and summary hold no fraud keyword), "titled" (any
\*               other title link); and "fetch_failed" or "fetch_ok" when the
\*               article was requested;
\*   last_url    the absolute URL of the entry just served, if it had a title
\*               link and was not a "repeat";
\*   candidates  whether an entry of the current page had a title link;
\*   fetched     the article URLs requested so far (the GET of line 60);
\*   stop        the way the call left its loop;
\*   delayed     whether the call has slept since its latest request;
\*   undelayed   whether the call has issued a request without having slept
\*               since the request before it.
NewRun(n, f) ==
    [num_articles |-> n, fraud_only |-> f,
     articles_data |-> <<>>, page_num |-> 1, seen_urls |-> {},
     pc |-> "while", articles_left |-> 0,
     candidates |-> FALSE, last |-> "start", last_url |-> <<>>,
     stop |-> "running", fetched |-> {},
     delayed |-> FALSE, undelayed |-> FALSE]

\* line 218: the call returns articles_data; its other locals end with it.
\* stop records which message the call printed on its way out.
Return(st, why) ==
    [st EXCEPT !.pc = "returned", !.stop = why, !.page_num = 1,
               !.seen_urls = {}, !.articles_left = 0, !.candidates = FALSE]

\* An exception inside the try block of line 104.
Except(st, exc) ==
    IF Caught(exc) THEN Return(st, "error")
    ELSE [st EXCEPT !.pc = "raised", !.stop = "error"]

\* lines 202-208 and the test of line 106 that follows them.
AfterFor(st) ==
    LET page_num == st.page_num + 1
    IN IF PageLimitReached(page_num) THEN Return(st, "page_limit")
       ELSE IF LoopCondition(st.articles_data, st.num_articles)
            THEN [st EXCEPT !.page_num = page_num, !.pc = "while",
                            !.articles_left = 0, !.candidates = FALSE]
            ELSE Return(st, "target")

\* The end of one iteration of the for loop of line 134 that did not break.
Continue(st) ==
    IF st.articles_left = 1 THEN AfterFor(st)
    ELSE [st EXCEPT !.articles_left = @ - 1]

\* lines 108-131: one listing page is requested and filtered.
AfterFetch(st0, page) ==
    LET st == Get(Sleep(st0))
    IN
    IF page.outcome = "ConnectionError"
    THEN Except([st EXCEPT !.last = "page_failed", !.last_url = <<>>], "ConnectionError")
    ELSE IF page.outcome # "ok"
    THEN Except([st EXCEPT !.last = "page_failed", !.last_url = <<>>], "HTTPError")
    ELSE LET articles == SelectSeq(page.entries, IsArticle)
         IN IF NoArticles(articles)
            THEN Return([st EXCEPT !.last = "page_empty", !.last_url = <<>>], "no_articles")
            ELSE IF Len(articles) = 0
            THEN AfterFor([st EXCEPT !.last = "page_empty", !.last_url = <<>>])
            ELSE [st EXCEPT !.pc = "for", !.articles_left = Len(articles),
                            !.candidates = FALSE, !.last = "page_listed",
                            !.last_url = <<>>]

\* lines 134-200: one iteration of the for loop, on the entry `item`; `doc` is
\* what the source serves if the article is requested (the delay and the
\* request of lines 59-60, in scrape_full_article).
Iteration(st, item, doc) ==
    IF ~HasTitleLink(item)
    THEN Continue([st EXCEPT !.last = item.markup, !.last_url = <<>>])
    ELSE
    LET article_url == AbsoluteUrl(item.href)
        combined_text == CombinedText(item.title, item.summary)
        is_fraud_related == FraudCheck[combined_text].found
        st1 == [st EXCEPT !.candidates = TRUE,
                          !.last_url = IF item.markup # "h3_link" \/ article_url \in st.seen_urls
                                       THEN <<>> ELSE article_url,
                          !.last = IF item.markup # "h3_link" THEN item.markup
                                   ELSE IF article_url \in st.seen_urls THEN "repeat"
                                   ELSE IF FraudCheck[combined_text].found
                                   THEN "titled" ELSE "plain"]
    IN
    IF IsDuplicate(article_url, st.seen_urls) THEN Continue(st1)
    ELSE
    LET st2 == [st1 EXCEPT !.seen_urls = MarkSeen(@, article_url)]
    IN
    IF SkipArticle(st.fraud_only, is_fraud_related) THEN Continue(st2)
    ELSE
    LET fetch == WantsFullArticle(is_fraud_related, article_url)
        got == IF fetch THEN scrape_full_article(doc)
               ELSE [value |-> "", raises |-> FALSE]
        st3 == IF fetch
               THEN [Get(Sleep(st2)) EXCEPT !.last = IF doc.status = "error"
                                         THEN "fetch_failed" ELSE "fetch_ok",
                                !.fetched = @ \cup {article_url}]
               ELSE st2
        st4 == [st3 EXCEPT !.articles_data =
                   AppendRecord(@, [url |-> article_url,
                              full_content |-> got.value,
                              is_fraud_related |-> is_fraud_related])]
    IN
    IF got.raises THEN Except(st3, "Exception")
    ELSE IF TargetReached(st4.articles_data, st4.num_articles) THEN AfterFor(st4)
    ELSE Continue(st4)

\* The article document is drawn only for an entry whose article can be
\* requested.
DocsFor(item) ==
    IF /\ HasTitleLink(item)
       /\ WantsFullArticle(FraudCheck[CombinedText(item.title, item.summary)].found,
                           AbsoluteUrl(item.href))
    THEN ArticleDocs
    ELSE {CHOOSE d \in ArticleDocs : d.status = "error"}

(***************************************************************************)
(* fraud_analysis.py: the classifier functions and analyze_articles.       *)
(***************************************************************************)
\* lines 17-32, in the order of the dictionary
FRAUD_CATEGORIES ==
    <<
        [category |-> "Check Fraud", keywords |-> <<
            <<"c","h","e","c","k"," ","f","r","a","u","d">>,
            <<"f","o","r","g","e","d"," ","c","h","e","c","k">>,
            <<"c","o","u","n","t","e","r","f","e","i","t"," ","c","h","e","c","k">>,
            <<"a","l","t","e","r","e","d"," ","c","h","e","c","k">>,
            <<"f","a","k","e"," ","c","h","e","c","k">>
        >>],
        [category |-> "Wire Fraud", keywords |-> <<
            <<"w","i","r","e"," ","f","r","a","u","d">>,
            <<"w","i","r","e"," ","t","r","a","n","s","f","e","r"," ","f","r","a","u","d">>,
            <<"a","c","h"," ","f","r","a","u","d">>,
            <<"e","l","e","c","t","r","o","n","i","c"," ","t","r","a","n","s","f","e","r"," ","f","r","a","u","d">>
        >>],
        [category |-> "Identity Theft", keywords |-> <<
            <<"i","d","e","n","t","i","t","y"," ","t","h","e","f","t">>,
            <<"s","y","n","t","h","e","t","i","c"," ","i","d","e","n","t","i","t","y">>,
            <<"s","t","o","l","e","n"," ","i","d","e","n","t","i","t","y">>,
            <<"i","d","e","n","t","i","t","y"," ","f","r","a","u","d">>,
            <<"a","c","c","o","u","n","t"," ","t","a","k","e","o","v","e","r">>,
            <<"i","m","p","e","r","s","o","n","a","t","i","o","n">>
        >>],
        [category |-> "Credit Card Fraud", keywords |-> <<
            <<"c","r","e","d","i","t"," ","c","a","r","d"," ","f","r","a","u","d">>,
            <<"c","a","r","d"," ","f","r","a","u","d">>,
            <<"c","a","r","d"," ","n","o","t"," ","p","r","e","s","e","n","t">>,
            <<"s","k","i","m","m","i","n","g">>,
            <<"c","a","r","d"," ","c","l","o","n","i","n","g">>,
            <<"c","o","m","p","r","o","m","i","s","e","d"," ","c","a","r","d">>
        >>],
        [category |-> "Cyber Crime", keywords |-> <<
            <<"c","y","b","e","r"," ","a","t","t","a","c","k">>,
            <<"c","y","b","e","r","a","t","t","a","c","k">>,
            <<"h","a","c","k","i","n","g">>,
            <<"r","a","n","s","o","m","w","a","r","e">>,
            <<"m","a","l","w","a","r","e">>,
            <<"p","h","i","s","h","i","n","g">>,
            <<"d","a","t","a"," ","b","r","e","a","c","h">>,
            <<"s","e","c","u","r","i","t","y"," ","b","r","e","a","c","h">>,
            <<"d","d","o","s">>
        >>],
        [category |-> "Money Laundering", keywords |-> <<
            <<"m","o","n","e","y"," ","l","a","u","n","d","e","r","i","n","g">>,
            <<"a","m","l">>,
            <<"a","n","t","i","-","m","o","n","e","y"," ","l","a","u","n","d","e","r","i","n","g">>,
            <<"s","u","s","p","i","c","i","o","u","s"," ","a","c","t","i","v","i","t","y">>,
            <<"s","a","r">>,
            <<"s","t","r","u","c","t","u","r","i","n","g">>,
            <<"s","m","u","r","f","i","n","g">>,
            <<"l","a","y","e","r","i","n","g">>
        >>],
        [category |-> "Embezzlement", keywords |-> <<
            <<"e","m","b","e","z","z","l","e","m","e","n","t">>,
            <<"e","m","p","l","o","y","e","e"," ","t","h","e","f","t">>,
            <<"i","n","t","e","r","n","a","l"," ","f","r","a","u","d">>,
            <<"m","i","s","a","p","p","r","o","p","r","i","a","t","i","o","n">>
        >>],
        [category |-> "Regulatory Compliance", keywords |-> <<
            <<"c","o","m","p","l","i","a","n","c","e">>,
            <<"r","e","g","u","l","a","t","i","o","n">>,
            <<"b","s","a">>,
            <<"b","a","n","k"," ","s","e","c","r","e","c","y"," ","a","c","t">>,
            <<"k","y","c">>,
            <<"k","n","o","w"," ","y","o","u","r"," ","c","u","s","t","o","m","e","r">>,
            <<"f","i","n","c","e","n">>,
            <<"s","a","n","c","t","i","o","n","s">>,
            <<"o","f","a","c">>
        >>],
        [category |-> "Other Financial Crime", keywords |-> <<
            <<"f","r","a","u","d">>,
            <<"s","c","a","m">>,
            <<"f","r","a","u","d","u","l","e","n","t">>,
            <<"f","i","n","a","n","c","i","a","l"," ","c","r","i","m","e">>,
            <<"d","e","e","p","f","a","k","e">>
        >>]
    >>

\* lines 35-37
HIGH_RISK_KEYWORDS ==
    <<
        <<"m","a","j","o","r"," ","b","r","e","a","c","h">>,
        <<"s","i","g","n","i","f","i","c","a","n","t"," ","l","o","s","s">>,
        <<"m","i","l","l","i","o","n","s">>,
        <<"b","i","l","l","i","o","n","s">>,
        <<"w","i","d","e","s","p","r","e","a","d">>,
        <<"s","e","v","e","r","e">>,
        <<"m","a","s","s","i","v","e">>,
        <<"s","y","s","t","e","m","i","c">>,
        <<"e","n","f","o","r","c","e","m","e","n","t"," ","a","c","t","i","o","n">>,
        <<"c","r","i","m","i","n","a","l"," ","c","h","a","r","g","e","s">>,
        <<"i","n","d","i","c","t","m","e","n","t">>,
        <<"p","r","o","s","e","c","u","t","i","o","n">>,
        <<"f","i","n","e">>,
        <<"p","e","n","a","l","t","y">>
    >>

\* lines 39-40
MEDIUM_RISK_KEYWORDS ==
    <<
        <<"w","a","r","n","i","n","g">>,
        <<"a","l","e","r","t">>,
        <<"c","o","n","c","e","r","n">>,
        <<"i","n","v","e","s","t","i","g","a","t","i","o","n">>,
        <<"s","u","s","p","e","c","t","e","d">>,
        <<"p","o","t","e","n","t","i","a","l">>,
        <<"v","u","l","n","e","r","a","b","i","l","i","t","y">>,
        <<"t","h","o","u","s","a","n","d","s">>,
        <<"s","e","t","t","l","e","m","e","n","t">>,
        <<"c","r","i","t","i","c","a","l">>
    >>

\* lines 42-43
LOW_RISK_KEYWORDS ==
    <<
        <<"p","r","e","v","e","n","t","i","o","n">>,
        <<"p","r","o","t","e","c","t","i","o","n">>,
        <<"s","e","c","u","r","i","t","y"," ","m","e","a","s","u","r","e">>,
        <<"u","p","d","a","t","e">>,
        <<"p","a","t","c","h">>,
        <<"a","w","a","r","e","n","e","s","s">>,
        <<"t","r","a","i","n","i","n","g">>,
        <<"a","d","v","i","s","o","r","y">>,
        <<"g","u","i","d","a","n","c","e">>,
        <<"b","e","s","t"," ","p","r","a","c","t","i","c","e">>
    >>

\* the list with "lost" where it has "loss"
negative_words_lost ==
    <<
        <<"b","r","e","a","c","h">>,
        <<"a","t","t","a","c","k">>,
        <<"f","r","a","u","d">>,
        <<"t","h","e","f","t">>,
        <<"s","c","a","m">>,
        <<"l","o","s","t">>,
        <<"v","i","c","t","i","m">>,
        <<"c","r","i","m","i","n","a","l">>,
        <<"i","l","l","e","g","a","l">>,
        <<"s","t","o","l","e","n">>,
        <<"c","o","m","p","r","o","m","i","s","e","d">>,
        <<"v","u","l","n","e","r","a","b","l","e">>,
        <<"f","i","n","e">>,
        <<"p","e","n","a","l","t","y">>,
        <<"v","i","o","l","a","t","i","o","n">>,
        <<"f","a","i","l","u","r","e">>,
        <<"c","o","n","c","e","r","n">>,
        <<"w","a","r","n","i","n","g">>
    >>

\* lines 169-171
negative_words ==
    <<
        <<"b","r","e","a","c","h">>,
        <<"a","t","t","a","c","k">>,
        <<"f","r","a","u","d">>,
        <<"t","h","e","f","t">>,
        <<"s","c","a","m">>,
        <<"l","o","s","s">>,
        <<"v","i","c","t","i","m">>,
        <<"c","r","i","m","i","n","a","l">>,
        <<"i","l","l","e","g","a","l">>,
        <<"s","t","o","l","e","n">>,
        <<"c","o","m","p","r","o","m","i","s","e","d">>,
        <<"v","u","l","n","e","r","a","b","l","e">>,
        <<"f","i","n","e">>,
        <<"p","e","n","a","l","t","y">>,
        <<"v","i","o","l","a","t","i","o","n">>,
        <<"f","a","i","l","u","r","e">>,
        <<"c","o","n","c","e","r","n">>,
        <<"w","a","r","n","i","n","g">>
    >>

\* lines 174-175
positive_words ==
    <<
        <<"p","r","e","v","e","n","t","i","o","n">>,
        <<"p","r","o","t","e","c","t","i","o","n">>,
        <<"s","e","c","u","r","e">>,
        <<"s","u","c","c","e","s","s">>,
        <<"i","m","p","r","o","v","e","m","e","n","t">>,
        <<"e","n","h","a","n","c","e">>,
        <<"s","t","r","e","n","g","t","h","e","n">>,
        <<"d","e","t","e","c","t">>,
        <<"r","e","c","o","v","e","r">>,
        <<"s","a","f","e","g","u","a","r","d">>
    >>

\* sum(1 for keyword in keywords if keyword.lower() in text_lower),
\* lines 101-103
KeywordHits(keywords, text_lower) ==
    Cardinality({k \in 1..Len(keywords) :
                    IsSubstring(ToLower(keywords[k]), text_lower)})

\* sum(1 for word in words if word in text_lower), lines 177-178
WordHits(words, text_lower) ==
    Cardinality({k \in 1..Len(words) : IsSubstring(words[k], text_lower)})

\* lines 77-81: the categories with a keyword in the text, in dictionary order,
\* each once.
RECURSIVE CategoriesFrom(_, _)
CategoriesFrom(text_lower, c) ==
    IF c > Len(FRAUD_CATEGORIES) THEN <<>>
    ELSE (IF \E k \in 1..Len(FRAUD_CATEGORIES[c].keywords) :
                IsSubstring(ToLower(FRAUD_CATEGORIES[c].keywords[k]), text_lower)
          THEN <<FRAUD_CATEGORIES[c].category>> ELSE <<>>)
         \o CategoriesFrom(text_lower, c + 1)

\* the list returned as found, without the 'Uncategorized' entry
categorize_fraud_type_bare(text) ==
    IF text = <<>> THEN <<>> ELSE CategoriesFrom(ToLower(text), 1)

\* lines 61-83
categorize_fraud_type(text) ==
    IF text = <<>> THEN <<>>
    ELSE LET categories_found == CategoriesFrom(ToLower(text), 1)
         IN IF categories_found # <<>> THEN categories_found
            ELSE <<"Uncategorized">>

\* > for >= in the first test
RiskLevel_strict(high_score, medium_score, low_score) ==
    IF high_score > 2 THEN "High"
    ELSE IF high_score >= 1 \/ medium_score >= 3 THEN "Medium-High"
    ELSE IF medium_score >= 1 THEN "Medium"
    ELSE IF low_score >= 1 THEN "Low"
    ELSE "Unknown"

\* the first two results exchanged
RiskLevel_exchanged(high_score, medium_score, low_score) ==
    IF high_score >= 2 THEN "Medium-High"
    ELSE IF high_score >= 1 \/ medium_score >= 3 THEN "High"
    ELSE IF medium_score >= 1 THEN "Medium"
    ELSE IF low_score >= 1 THEN "Low"
    ELSE "Unknown"

\* lines 105-114
RiskLevel(high_score, medium_score, low_score) ==
    IF high_score >= 2 THEN "High"
    ELSE IF high_score >= 1 \/ medium_score >= 3 THEN "Medium-High"
    ELSE IF medium_score >= 1 THEN "Medium"
    ELSE IF low_score >= 1 THEN "Low"
    ELSE "Unknown"

\* lines 86-114
assess_risk_level(text) ==
    IF text = <<>> THEN "Unknown"
    ELSE LET text_lower == ToLower(text)
         IN RiskLevel(KeywordHits(HIGH_RISK_KEYWORDS, text_lower),
                      KeywordHits(MEDIUM_RISK_KEYWORDS, text_lower),
                      KeywordHits(LOW_RISK_KEYWORDS, text_lower))

\* >= for > in both tests
Sentiment_inclusive(negative_score, positive_score) ==
    IF negative_score >= positive_score + 2 THEN "Negative"
    ELSE IF positive_score >= negative_score + 1 THEN "Positive"
    ELSE "Neutral"

\* lines 180-185
Sentiment(negative_score, positive_score) ==
    IF negative_score > positive_score + 2 THEN "Negative"
    ELSE IF positive_score > negative_score + 1 THEN "Positive"
    ELSE "Neutral"

\* lines 153-185
analyze_sentiment(text) ==
    IF text = <<>> THEN "Neutral"
    ELSE LET text_lower == ToLower(text)
         IN Sentiment(WordHits(negative_words, text_lower),
                      WordHits(positive_words, text_lower))

(***************************************************************************)
(* The rows analyze_articles reads: rows of the file the scraper's main     *)
(* writes (lines 265-277 of BankingDiveWS.py).  df is one row of the frame  *)
(* with its columns; every column of analyze_articles is computed row by    *)
(* row (Series.apply), so a row's values do not depend on the other rows.   *)
(***************************************************************************)
MaxPhrases == 4

\* Words a title is made of.
Phrases ==
    <<
        <<"m","i","l","l","i","o","n","s">>,
        <<"p","e","n","a","l","t","y">>,
        <<"w","a","r","n","i","n","g">>,
        <<"a","l","e","r","t">>,
        <<"c","o","n","c","e","r","n">>,
        <<"u","p","d","a","t","e">>,
        <<"s","e","c","u","r","e">>,
        <<"d","e","t","e","c","t">>,
        <<"f","r","a","u","d">>,
        <<"m","a","l","w","a","r","e">>
    >>

\* The phrases with an index in S from k on, in order, joined by spaces.
RECURSIVE JoinPhrases(_, _)
JoinPhrases(S, k) ==
    IF k > Len(Phrases) THEN <<>>
    ELSE IF k \notin S THEN JoinPhrases(S, k + 1)
    ELSE LET rest == JoinPhrases(S, k + 1)
         IN IF rest = <<>> THEN Phrases[k] ELSE Phrases[k] \o <<" ">> \o rest

ScenarioText ==
    <<"B","a","n","k"," ","r","e","p","o","r","t","s"," ","w","i","r","e"," ","f","r","a","u","d"," ","a","n","d"," ","s","a","n","c","t","i","o","n","s"," ","v","i","o","l","a","t","i","o","n",","," ","m","i","l","l","i","o","n","s"," ","l","o","s","t">>

RowTitles ==
    {JoinPhrases(S, 1) :
        S \in {T \in SUBSET (1..Len(Phrases)) : Cardinality(T) <= MaxPhrases}}
    \cup {ScenarioText}

ArticleText ==
    <<"F","i","r","s","t"," ","p","a","r","a","g","r","a","p","h","."," ","S","e","c","o","n","d"," ","p","a","r","a","g","r","a","p","h",".">>

\* A row as scrape_banking_dive builds it (lines 174-196): is_fraud_related is
\* the verdict on title and summary, and only a fraud-related row has content.
RowsOf(title) ==
    LET is_fraud_related == contains_fraud_keywords(CombinedText(title, <<>>)).found
    IN {[title |-> title, summary |-> <<>>, full_content |-> c,
         is_fraud_related |-> is_fraud_related] :
            c \in IF is_fraud_related THEN {<<>>, ArticleText} ELSE {<<>>}}

\* No frame: the value of df while the scraper runs.
NoFrame ==
    [stage |-> "none", title |-> <<>>, summary |-> <<>>, full_content |-> <<>>,
     is_fraud_related |-> FALSE, analysis_text |-> <<>>,
     fraud_categories |-> <<>>, risk_level |-> "", sentiment |-> ""]

\* line 207
read_csv(row) ==
    [NoFrame EXCEPT !.stage = "loaded", !.title = row.title,
                    !.summary = row.summary, !.full_content = row.full_content,
                    !.is_fraud_related = row.is_fraud_related]

\* line 211
CreateAnalysisText ==
    /\ df.stage = "loaded"
    /\ df' = [df EXCEPT !.stage = "text",
                        !.analysis_text = df.title \o <<" ">> \o df.summary
                                          \o <<" ">> \o df.full_content]
    /\ UNCHANGED run

\* line 214
CategorizeFraudTypes ==
    /\ df.stage = "text"
    /\ df' = [df EXCEPT !.stage = "categorized",
                        !.fraud_categories = categorize_fraud_type(df.analysis_text)]
    /\ UNCHANGED run

\* line 218
AssessRiskLevels ==
    /\ df.stage = "categorized"
    /\ df' = [df EXCEPT !.stage = "risk",
                        !.risk_level = assess_risk_level(df.analysis_text)]
    /\ UNCHANGED run

\* line 221
AnalyzeSentiments ==
    /\ df.stage = "risk"
    /\ df' = [df EXCEPT !.stage = "sentiment",
                        !.sentiment = analyze_sentiment(df.analysis_text)]
    /\ UNCHANGED run

NextAnalysis ==
    CreateAnalysisText \/ CategorizeFraudTypes \/ AssessRiskLevels \/ AnalyzeSentiments

InitAnalysis ==
    /\ run = <<>>
    /\ \E title \in RowTitles : \E row \in RowsOf(title) : df = read_csv(row)

SpecAnalysis == InitAnalysis /\ [][NextAnalysis]_vars

(***************************************************************************)
(* The specifications                                                      *)
(***************************************************************************)
Runs == DOMAIN run

FetchPage ==
    /\ \E r \in Runs : run[r].pc = "while"
    /\ \E page \in ListingPages :
         run' = [r \in Runs |->
                   IF run[r].pc = "while" THEN AfterFetch(run[r], page) ELSE run[r]]
    /\ UNCHANGED df

ProcessArticle ==
    /\ \E r \in Runs : run[r].pc = "for"
    /\ \E item \in Items : \E doc \in DocsFor(item) :
         run' = [r \in Runs |->
                   IF run[r].pc = "for" THEN Iteration(run[r], item, doc) ELSE run[r]]
    /\ UNCHANGED df

Next == FetchPage \/ ProcessArticle

Init ==
    /\ \E n \in 1..MaxTarget, f \in BOOLEAN :
          run = [r \in {"run"} |-> NewRun(n, f)]
    /\ df = NoFrame

Spec == Init /\ [][Next]_vars

InitPair ==
    /\ \E n \in 1..MaxTarget :
          run = [r \in {"fraud_only", "all"} |-> NewRun(n, r = "fraud_only")]
    /\ df = NoFrame

SpecPair == InitPair /\ [][Next]_vars

(***************************************************************************)
(* Properties                                                              *)
(***************************************************************************)
Urls(articles_data) == {articles_data[i].url : i \in 1..Len(articles_data)}

Running(r) == run[r].pc \in {"while", "for"}

UntitledEvents == {"link_only", "no_link"}

\* C1: no two records of a call's output have the same url.
C1_UniqueUrls ==
    \A r \in Runs :
        \A i, j \in 1..Len(run[r].articles_data) :
            i # j => run[r].articles_data[i].url # run[r].articles_data[j].url

\* An entry repeating an earlier URL has just been served to a call that
\* already holds a record.
C1_Witness ==
    \E r \in Runs :
        /\ run[r].last = "repeat"
        /\ Len(run[r].articles_data) >= 1
        /\ Running(r)

\* C2: the output never holds more records than the target count, in either
\* mode, while paging and at return.
C2_LengthAtMostTarget ==
    \A r \in Runs : Len(run[r].articles_data) <= run[r].num_articles

\* A call that reached a target of two and returned.
C2_Witness ==
    \E r \in Runs :
        /\ run[r].pc = "returned"
        /\ run[r].stop = "target"
        /\ run[r].num_articles = 2
        /\ Len(run[r].articles_data) = 2

\* C3, as stated: a call that has ended holds exactly K records unless a listing
\* page had no entries or the page ceiling was hit.
C3_Original ==
    \A r \in Runs :
        run[r].pc = "returned" =>
            \/ Len(run[r].articles_data) = run[r].num_articles
            \/ run[r].stop \in {"no_articles", "page_limit"}

\* C3, amended: a call that has ended holds exactly K records unless a listing
\* page had no entries, the page ceiling was hit, or a listing-page fetch failed.
C3_ExactUnlessStoppedEarly ==
    \A r \in Runs :
        run[r].pc = "returned" =>
            \/ Len(run[r].articles_data) = run[r].num_articles
            \/ run[r].stop \in {"no_articles", "page_limit", "error"}

\* A call ended by a failed listing fetch, with part of its target collected.
C3_Witness ==
    \E r \in Runs :
        /\ run[r].pc = "returned"
        /\ run[r].stop = "error"
        /\ Len(run[r].articles_data) >= 1
        /\ Len(run[r].articles_data) < run[r].num_articles

\* C4: with fraud_only every record of the output is fraud-related.
C4_FraudOnlyOutput ==
    \A r \in Runs :
        run[r].fraud_only =>
            \A i \in 1..Len(run[r].articles_data) :
                run[r].articles_data[i].is_fraud_related

\* A fraud-only call that holds a record and has passed over an entry (a URL it
\* has seen is not in its output).
C4_Witness ==
    \E r \in Runs :
        /\ run[r].fraud_only
        /\ Len(run[r].articles_data) >= 1
        /\ run[r].seen_urls \ Urls(run[r].articles_data) # {}

BothReturned ==
    /\ run["fraud_only"].pc = "returned"
    /\ run["all"].pc = "returned"

\* C5, as stated: over the same source and target, the URLs of the fraud-only
\* output are among the URLs of the all-articles output.
C5_Original ==
    BothReturned =>
        Urls(run["fraud_only"].articles_data) \subseteq Urls(run["all"].articles_data)

\* C5, amended: the same, provided the all-articles call ended with fewer
\* records than the target.
C5_SubsetUnlessAllHitTarget ==
    (/\ BothReturned
     /\ Len(run["all"].articles_data) < run["all"].num_articles) =>
        Urls(run["fraud_only"].articles_data) \subseteq Urls(run["all"].articles_data)

\* Both calls ended by an empty listing page, the all-articles call short of
\* its target, the fraud-only output not empty.
C5_Witness ==
    /\ BothReturned
    /\ run["all"].stop = "no_articles"
    /\ Len(run["all"].articles_data) < run["all"].num_articles
    /\ run["fraud_only"].articles_data # <<>>

\* C6: a record has full content only if it is fraud-related and the call
\* fetches full articles; a record that is not fraud-related, or of a call that
\* does not fetch them, has empty full content and its article was never
\* requested.  (Every call of the code fetches them.)
C6_FullContentOnlyForFraud ==
    \A r \in Runs :
        \A i \in 1..Len(run[r].articles_data) :
            LET rec == run[r].articles_data[i]
            IN /\ rec.full_content # "" =>
                      rec.is_fraud_related /\ FullTextEnabled(run[r])
               /\ (~rec.is_fraud_related \/ ~FullTextEnabled(run[r])) =>
                      rec.full_content = "" /\ rec.url \notin run[r].fetched

\* An output with a record that is not fraud-related and a fraud-related
\* record with full content.
C6_Witness ==
    \E r \in Runs :
        \E i, j \in 1..Len(run[r].articles_data) :
            /\ ~run[r].articles_data[i].is_fraud_related
            /\ run[r].articles_data[i].url # <<>>
            /\ run[r].articles_data[j].is_fraud_related
            /\ run[r].articles_data[j].full_content # ""

\* C7: a failed listing fetch ends the call at once: it returns, no exception
\* leaves it, its output is the one it held before the request, no article is
\* requested, and a call that has returned does nothing more.
C7_ListingFailureEndsRun ==
    /\ [](\A r \in Runs : run[r].pc # "raised")
    /\ [][\A r \in Runs :
            /\ (run[r].pc = "while" /\ run'[r].last = "page_failed") =>
                   /\ run'[r].pc = "returned"
                   /\ run'[r].articles_data = run[r].articles_data
                   /\ run'[r].fetched = run[r].fetched
            /\ run[r].pc = "returned" => run'[r] = run[r]]_vars

\* A call ended by a failed listing fetch, holding a record.
C7_Witness ==
    \E r \in Runs :
        /\ run[r].pc = "returned"
        /\ run[r].last = "page_failed"
        /\ Len(run[r].articles_data) >= 1

\* C8: when the request of a fraud-related entry's article fails, the entry's
\* record is appended with empty full content, no exception leaves the call,
\* and the call does not end in its error exit.
C8_ArticleFailureKeepsRecord ==
    [][\A r \in Runs :
         (run[r].pc = "for" /\ run'[r].last = "fetch_failed") =>
            /\ Len(run'[r].articles_data) = Len(run[r].articles_data) + 1
            /\ SubSeq(run'[r].articles_data, 1, Len(run[r].articles_data))
                   = run[r].articles_data
            /\ LET rec == run'[r].articles_data[Len(run'[r].articles_data)]
               IN rec.full_content = "" /\ rec.is_fraud_related
                  /\ rec.url \in run'[r].fetched
            /\ run'[r].pc # "raised"
            /\ run'[r].stop # "error"
            /\ (Len(run'[r].articles_data) < run[r].num_articles
                /\ run[r].page_num < PageLimit) => Running(r)']_vars

\* After a failed article request the call is still in the for loop of the
\* same page, the record appended.
C8_Witness ==
    \E r \in Runs :
        /\ run[r].last = "fetch_failed"
        /\ run[r].pc = "for"
        /\ Len(run[r].articles_data) >= 1
        /\ run[r].articles_data[Len(run[r].articles_data)].full_content = ""

\* The step ends a listing page from which the call got no candidate: no entry
\* but advertisements, or entries without a title link only.
ZeroCandidatePageEnds(r) ==
    \/ run[r].pc = "while" /\ run'[r].last = "page_empty"
    \/ /\ run[r].pc = "for" /\ run'[r].pc # "for"
       /\ ~run[r].candidates
       /\ run'[r].last \in UntitledEvents

\* C9, as stated: a listing page that yields no candidate (advertisements
\* excluded, entries without a title discarded) ends the call.
C9_Original ==
    [][\A r \in Runs : ZeroCandidatePageEnds(r) => run'[r].pc = "returned"]_vars

\* C9, amended: a listing page with no entry left after the advertisement
\* filter ends the call, which returns the records it held; a page whose
\* entries all lack a title link does not end it (short of the page ceiling).
C9_EmptyPageEndsRun ==
    [][\A r \in Runs :
         /\ (run[r].pc = "while" /\ run'[r].last = "page_empty") =>
                /\ run'[r].pc = "returned"
                /\ run'[r].stop = "no_articles"
                /\ run'[r].articles_data = run[r].articles_data
         /\ (/\ run[r].pc = "for" /\ run'[r].pc # "for"
             /\ ~run[r].candidates
             /\ run'[r].last \in UntitledEvents) =>
                \/ run'[r].pc = "while" /\ run'[r].page_num = run[r].page_num + 1
                \/ run'[r].stop = "page_limit"]_vars

\* A call ended by an empty listing page, holding a record.
C9_Witness ==
    \E r \in Runs :
        /\ run[r].pc = "returned"
        /\ run[r].stop = "no_articles"
        /\ run[r].last = "page_empty"
        /\ Len(run[r].articles_data) >= 1

\* C10: a call requests listing pages 1..200 only, and ends without error when
\* page 200 is done.
C10_PageCeiling ==
    \A r \in Runs :
        /\ Running(r) => run[r].page_num \in 1..PageLimit
        /\ run[r].pc # "raised"
        /\ run[r].stop = "page_limit" => run[r].pc = "returned"

\* A call ended at the page ceiling, short of its target.
C10_Witness ==
    \E r \in Runs :
        /\ run[r].stop = "page_limit"
        /\ run[r].pc = "returned"
        /\ Len(run[r].articles_data) < run[r].num_articles

\* C11: with fraud_only, an entry that is not fraud-related and whose URL is
\* new leaves the output and the requested articles as they were and adds its
\* URL to seen_urls; an entry whose URL is in seen_urls changes none of the
\* three.
C11_SkipMarksSeenOnly ==
    [][\A r \in Runs :
         /\ (run[r].pc = "for" /\ run[r].fraud_only /\ run'[r].last = "plain") =>
                /\ run'[r].articles_data = run[r].articles_data
                /\ run'[r].fetched = run[r].fetched
                /\ run'[r].last_url \notin run[r].seen_urls
                /\ Running(r)' =>
                       run'[r].seen_urls = run[r].seen_urls \cup {run'[r].last_url}
         /\ (run[r].pc = "for" /\ run'[r].last = "repeat") =>
                /\ run'[r].articles_data = run[r].articles_data
                /\ run'[r].fetched = run[r].fetched
                /\ Running(r)' => run'[r].seen_urls = run[r].seen_urls]_vars

\* A fraud-only call with no record has just been served again a URL it had
\* passed over.
C11_Witness ==
    \E r \in Runs :
        /\ run[r].fraud_only
        /\ run[r].last = "repeat"
        /\ run[r].articles_data = <<>>
        /\ run[r].seen_urls # {}
        /\ Running(r)

\* C12: the append that brings the output to the target ends the call in the
\* same step, having requested at most the appended record's own article; a
\* call whose output is at the target is never in its loops and changes
\* nothing any more (no entry processed, no article and no page requested).
C12_StopsAtTarget ==
    /\ [](\A r \in Runs :
            Running(r) => Len(run[r].articles_data) < run[r].num_articles)
    /\ [][\A r \in Runs :
            /\ (/\ Len(run[r].articles_data) < run[r].num_articles
                /\ Len(run'[r].articles_data) >= run[r].num_articles) =>
                   /\ run'[r].pc = "returned"
                   /\ Len(run'[r].articles_data) = run[r].num_articles
                   /\ run'[r].fetched \ run[r].fetched \subseteq
                          {run'[r].articles_data[Len(run'[r].articles_data)].url}
            /\ Len(run[r].articles_data) >= run[r].num_articles =>
                   run'[r] = run[r]]_vars

\* A call that returned at its target of two from the first of the entries of
\* a page: the entries after it were not served.
C12_Witness ==
    \E r \in Runs :
        /\ run[r].pc = "returned"
        /\ run[r].stop = "target"
        /\ run[r].num_articles = 2
        /\ Len(run[r].articles_data) = 2
        /\ run[r].last \in {"fetch_ok", "fetch_failed"}

\* C13: no request, for a listing page or for an article, is issued without a
\* delay since the request before it.
C13_DelayBeforeEveryRequest ==
    \A r \in Runs : ~run[r].undelayed

\* A call that has requested two listing pages and an article.
C13_Witness ==
    \E r \in Runs :
        /\ run[r].page_num >= 2
        /\ run[r].pc = "for"
        /\ run[r].fetched # {}
        /\ ~run[r].undelayed

\* C19, as stated: every record's url is absolute: it is not empty and starts
\* with a scheme.
C19_Original ==
    \A r \in Runs :
        \A i \in 1..Len(run[r].articles_data) :
            /\ run[r].articles_data[i].url # <<>>
            /\ StartsWith(run[r].articles_data[i].url, http)

\* C19, amended: every record's url, and every URL of seen_urls, is empty or
\* starts with "http": a target that is not empty and does not start with
\* "http" is prefixed with the base origin before the duplicate check and the
\* append, and an empty target is kept empty.
C19_AbsoluteOrEmptyUrl ==
    \A r \in Runs :
        /\ \A i \in 1..Len(run[r].articles_data) :
               \/ run[r].articles_data[i].url = <<>>
               \/ StartsWith(run[r].articles_data[i].url, http)
        /\ \A u \in run[r].seen_urls : u = <<>> \/ StartsWith(u, http)
        /\ run[r].last_url = <<>> \/ StartsWith(run[r].last_url, http)

\* An output with a record of empty url and a record whose url was rewritten
\* from a relative target.
C19_Witness ==
    \E r \in Runs :
        \E i, j \in 1..Len(run[r].articles_data) :
            /\ run[r].articles_data[i].url = <<>>
            /\ run[r].articles_data[j].url = base_origin \o <<"/","n","e","w","s","/","b">>

\* C20, as stated: an entry without a title heading link but with another link
\* yields a candidate; in a call that collects all articles and has seen no
\* URL yet, that candidate is appended.
C20_Original ==
    [][\A r \in Runs :
         (/\ run[r].pc = "for" /\ ~run[r].fraud_only
          /\ run[r].seen_urls = {}
          /\ run'[r].last = "link_only") =>
             Len(run'[r].articles_data) = Len(run[r].articles_data) + 1]_vars

\* C20, amended: there is no fallback.  An entry without a link in a title
\* heading, whether it has another link or none, is discarded: the output, the
\* requested articles and seen_urls are as before.  An entry with a link in a
\* title heading yields a candidate: its URL is in seen_urls afterwards.
C20_TitleFromHeadingLinkOnly ==
    [][\A r \in Runs :
         /\ (run[r].pc = "for" /\ run'[r].last \in UntitledEvents) =>
                /\ run'[r].articles_data = run[r].articles_data
                /\ run'[r].fetched = run[r].fetched
                /\ Running(r)' => /\ run'[r].seen_urls = run[r].seen_urls
                                  /\ run'[r].candidates = (run[r].candidates /\ run'[r].pc = "for")
         /\ (/\ run[r].pc = "for"
             /\ run'[r].last \in {"plain", "titled", "fetch_ok", "fetch_failed"}
             /\ Running(r)') =>
                run'[r].last_url \in run'[r].seen_urls]_vars

\* A call that holds a record has just been served an entry whose only link is
\* outside a title heading, and is still on the same page.
C20_Witness ==
    \E r \in Runs :
        /\ run[r].last = "link_only"
        /\ run[r].pc = "for"
        /\ Len(run[r].articles_data) >= 1

\* The stages of analyze_articles at which a column is there.
Categorized == df.stage \in {"categorized", "risk", "sentiment"}

RiskAssessed == df.stage \in {"risk", "sentiment"}

SentimentAnalyzed == df.stage = "sentiment"

\* The hit counts of the row's text.
HighHits == KeywordHits(HIGH_RISK_KEYWORDS, ToLower(df.analysis_text))

MediumHits == KeywordHits(MEDIUM_RISK_KEYWORDS, ToLower(df.analysis_text))

LowHits == KeywordHits(LOW_RISK_KEYWORDS, ToLower(df.analysis_text))

NegativeHits == WordHits(negative_words, ToLower(df.analysis_text))

PositiveHits == WordHits(positive_words, ToLower(df.analysis_text))

Rank(risk_level) ==
    CASE risk_level = "Unknown" -> 0
      [] risk_level = "Low" -> 1
      [] risk_level = "Medium" -> 2
      [] risk_level = "Medium-High" -> 3
      [] risk_level = "High" -> 4

\* C15: with the row's medium and low hit counts, no larger number of high-tier
\* hits gives a risk level of lower rank than the row's, and no smaller number
\* one of higher rank.
C15_RiskMonotoneInHighHits ==
    RiskAssessed =>
        \A h \in 0..Len(HIGH_RISK_KEYWORDS) :
            /\ h >= HighHits =>
                  Rank(RiskLevel(h, MediumHits, LowHits)) >= Rank(df.risk_level)
            /\ h <= HighHits =>
                  Rank(RiskLevel(h, MediumHits, LowHits)) <= Rank(df.risk_level)

\* A row with one high-tier hit and two medium-tier hits, assessed Medium-High:
\* below it is Medium (no high-tier hit), above it High.
C15_Witness ==
    /\ RiskAssessed
    /\ HighHits = 1 /\ MediumHits = 2
    /\ df.risk_level = "Medium-High"

\* The row whose text is the scenario's text alone has been analysed.
ScenarioAnalyzed ==
    /\ SentimentAnalyzed
    /\ df.title = ScenarioText
    /\ df.summary = <<>>
    /\ df.full_content = <<>>

\* C16, as stated: the sentiment of the scenario's text is Negative.
C16_Original == ScenarioAnalyzed => df.sentiment = "Negative"

\* C16, amended: the sentiment of the scenario's text is Neutral: the negative
\* words counted on it are "fraud" and "violation", no positive word is, and 2
\* is not more than 0 + 2.
C16_ScenarioIsNeutral ==
    ScenarioAnalyzed =>
        /\ df.sentiment = "Neutral"
        /\ {negative_words[k] : k \in {i \in 1..Len(negative_words) :
                IsSubstring(negative_words[i], ToLower(df.analysis_text))}}
             = {<<"f","r","a","u","d">>, <<"v","i","o","l","a","t","i","o","n">>}
        /\ PositiveHits = 0

\* The scenario's text has been analysed, as a fraud-related row.
C16_Witness == ScenarioAnalyzed /\ df.is_fraud_related

\* C17: the sentiment is Negative exactly when n > p + 2, Positive exactly when
\* p > n + 1, Neutral otherwise, and the two conditions exclude each other.
C17_SentimentThresholds ==
    SentimentAnalyzed =>
        LET n == NegativeHits
            p == PositiveHits
        IN /\ (df.sentiment = "Negative") = (n > p + 2)
           /\ (df.sentiment = "Positive") = (p > n + 1)
           /\ (df.sentiment = "Neutral") = (~(n > p + 2) /\ ~(p > n + 1))
           /\ ~(n > p + 2 /\ p > n + 1)

\* A row with a positive hit and exactly two more negative hits: Neutral, one
\* negative hit short of Negative.
C17_Witness ==
    /\ SentimentAnalyzed
    /\ PositiveHits >= 1
    /\ NegativeHits = PositiveHits + 2
    /\ df.sentiment = "Neutral"

\* C18, as stated: a row that is not fraud-related has no category after
\* classification.
C18_Original ==
    (Categorized /\ ~df.is_fraud_related) => df.fraud_categories = <<>>

CategoryNames == {FRAUD_CATEGORIES[c].category : c \in 1..Len(FRAUD_CATEGORIES)}

\* C18, amended: every row has a category after classification, fraud-related
\* or not: the categories one of whose keywords its text holds, or
\* "Uncategorized" alone when there is none.
C18_EveryRowCategorized ==
    Categorized =>
        LET matched == {c \in 1..Len(FRAUD_CATEGORIES) :
                          KeywordHits(FRAUD_CATEGORIES[c].keywords,
                                      ToLower(df.analysis_text)) >= 1}
        IN /\ df.fraud_categories # <<>>
           /\ matched = {} => df.fraud_categories = <<"Uncategorized">>
           /\ matched # {} =>
                 {df.fraud_categories[i] : i \in 1..Len(df.fraud_categories)}
                    = {FRAUD_CATEGORIES[c].category : c \in matched}

\* A row that is not fraud-related, categorized "Uncategorized".
C18_Witness ==
    /\ Categorized
    /\ ~df.is_fraud_related
    /\ df.title # <<>>
    /\ df.fraud_categories = <<"Uncategorized">>

IsPrefix(s, t) == Len(s) <= Len(t) /\ SubSeq(t, 1, Len(s)) = s

\* C21: the first page requested is page 1; a page is requested only when no
\* entry of the page before is left, and it is the page after it; within a
\* page the entries are taken one by one with the page number unchanged; the
\* output before a step is a prefix of the output after it, longer by at most
\* the record of the entry just served, put last.
C21_SequentialPagesAppendOrder ==
    /\ [](\A r \in Runs :
            /\ run[r].pc = "while" => run[r].articles_left = 0
            /\ (run[r].last = "start" /\ Running(r)) => run[r].page_num = 1)
    /\ [][\A r \in Runs :
            /\ (run[r].pc = "while" /\ run'[r].pc \in {"while", "for"}) =>
                   /\ run'[r].page_num = run[r].page_num
                   /\ run'[r].articles_data = run[r].articles_data
            /\ (run[r].pc = "for" /\ run'[r].pc = "for") =>
                   /\ run'[r].page_num = run[r].page_num
                   /\ run'[r].articles_left = run[r].articles_left - 1
            /\ (run[r].pc = "for" /\ run'[r].pc = "while") =>
                   run'[r].page_num = run[r].page_num + 1
            /\ IsPrefix(run[r].articles_data, run'[r].articles_data)
            /\ Len(run'[r].articles_data) <= Len(run[r].articles_data) + 1
            /\ Len(run'[r].articles_data) = Len(run[r].articles_data) + 1 =>
                   /\ run[r].pc = "for"
                   /\ run'[r].articles_data[Len(run'[r].articles_data)].url
                          = run'[r].last_url]_vars

\* A call that returned with two records, of which the second is the record
\* of the entry served last and the first the record of an earlier entry.
C21_Witness ==
    \E r \in Runs :
        /\ run[r].pc = "returned"
        /\ Len(run[r].articles_data) = 2
        /\ run[r].last \in {"plain", "titled", "fetch_ok", "fetch_failed"}
        /\ run[r].articles_data[2].url = run[r].last_url
        /\ run[r].articles_data[1].url # run[r].last_url

\* C22: a step that ends a listing page with the target not reached, whatever
\* the page added to the output (nothing, when each of its entries was a repeat
\* or was passed over), is followed by the request of the next page, or ends
\* the call at the page ceiling; the call ends at the ceiling only from page
\* 200.
C22_UnproductivePageGoesOn ==
    [][\A r \in Runs :
         /\ (/\ run[r].pc = "for" /\ run'[r].pc # "for"
             /\ Len(run'[r].articles_data) < run[r].num_articles) =>
                \/ /\ run'[r].pc = "while"
                   /\ run'[r].page_num = run[r].page_num + 1
                   /\ run[r].page_num < PageLimit
                \/ /\ run'[r].pc = "returned"
                   /\ run'[r].stop = "page_limit"
                   /\ run[r].page_num = PageLimit
         /\ (run[r].stop = "running" /\ run'[r].stop = "page_limit") =>
                run[r].pc = "for" /\ run[r].page_num = PageLimit]_vars

\* A fraud-only call that ended at the page ceiling with no record, its last
\* page closed by an entry it had seen before or passed over.
C22_Witness ==
    \E r \in Runs :
        /\ run[r].fraud_only
        /\ run[r].pc = "returned"
        /\ run[r].stop = "page_limit"
        /\ run[r].articles_data = <<>>
        /\ run[r].last \in {"repeat", "plain"}

====
